---- MODULE Spec2Model ----
(***************************************************************************)
(* The workout timer of gym-clock: the reducer timerReducer of             *)
(* src/hooks/useTimer.ts and the hook useTimer that drives it with a       *)
(* 10 ms interval and measured deltas.                                     *)
(*                                                                         *)
(* Six specifications share the variables:                                 *)
(*   Spec        the reducer under every sequence of dispatched actions,   *)
(*               the TICK deltas drawn from Deltas;                        *)
(*   SpecBack    the reducer under TICK deltas of either sign;             *)
(*   DriverSpec  the hook: commands dispatched through its API, the        *)
(*               interval callback computing delta from the wall clock,    *)
(*               and the render + effect step that starts and clears the   *)
(*               interval.  The tabata, emom and amrap settings keep their *)
(*               defaults there; the hook reads none of them.              *)
(*   AppSpec     the hook driven through the controls the screen renders;  *)
(*   RunSpec     the hook during one bounded run that is set up at instant *)
(*               0, started and then left alone, under fair scheduling;    *)
(*   SteadySpec  the reducer when the settings of a run are edited only    *)
(*               before its first START, STOP or TICK.                     *)
(* The formatters of utils/timeFormat are operators applied to state.      *)
(***************************************************************************)
EXTENDS Integers, FiniteSets, Sequences, TLC

VARIABLES
    state,        \* the TimerState held by useReducer
    action,       \* the TimerAction most recently applied to it
    rendered,     \* state.isRunning as of the last render (closures, effect deps)
    intervalRef,  \* intervalRef.current: NoInterval or the id of an interval
    live,         \* ids of the intervals setInterval made that are not cleared
    lastTickRef,  \* lastTickRef.current
    now,          \* Date.now()
    startedAt,    \* history: Date.now() when isRunning last went FALSE -> TRUE
    runStart      \* history: the effect run that began the current run, if
                  \* nothing has stopped the engine since

vars == <<state, action, rendered, intervalRef, live, lastTickRef, now,
          startedAt, runStart>>
driverVars == <<rendered, intervalRef, live, lastTickRef, now>>

----------------------------------------------------------------------------
(* Bounds of the model *)

\* TICK is explored from states whose currentTime is below this (stopwatch
\* and clock have no boundary of their own).
MaxElapsed == 120000

\* The wall clock is explored up to this instant.
MaxNow == 60000

\* Interval ids handed out by setInterval are 1..MaxIntervals.
MaxIntervals == 3

----------------------------------------------------------------------------
(* Inputs *)

Modes == {"clock", "stopwatch", "countdown", "tabata", "emom", "amrap"}

\* Measured deltas in ms: none, just under 20 s, exactly 20 s.
Deltas == {0, 19999, 20000}

CountdownChoices == {[totalTime |-> 180], [totalTime |-> 20]}

TabataChoices ==
    { [workTime |-> 20, restTime |-> 10, rounds |-> 8],
      [workTime |-> 20, restTime |-> 10, rounds |-> 2],
      [workTime |-> 10, restTime |-> 20, rounds |-> 1] }

EmomChoices ==
    { [intervalTime |-> 60, totalMinutes |-> 10],
      [intervalTime |-> 60, totalMinutes |-> 2],
      [intervalTime |-> 30, totalMinutes |-> 2] }

AmrapChoices == {[totalTime |-> 600], [totalTime |-> 60]}

IntroChoices == {0, 10, 20}

----------------------------------------------------------------------------
(* The reducer *)

initialState_IntroOff ==
    [ mode               |-> "stopwatch",
      isRunning          |-> FALSE,
      currentTime        |-> 0,
      countdown          |-> [totalTime |-> 180],
      tabata             |-> [workTime |-> 20, restTime |-> 10, rounds |-> 8],
      emom               |-> [intervalTime |-> 60, totalMinutes |-> 10],
      amrap              |-> [totalTime |-> 600],
      currentRound       |-> 1,
      isWorkPhase        |-> TRUE,
      currentMinute      |-> 1,
      countdownIntro     |-> 0,
      isInCountdownIntro |-> FALSE,
      introTimeRemaining |-> 0 ]

initialState ==
    [ mode               |-> "stopwatch",
      isRunning          |-> FALSE,
      currentTime        |-> 0,
      countdown          |-> [totalTime |-> 180],
      tabata             |-> [workTime |-> 20, restTime |-> 10, rounds |-> 8],
      emom               |-> [intervalTime |-> 60, totalMinutes |-> 10],
      amrap              |-> [totalTime |-> 600],
      currentRound       |-> 1,
      isWorkPhase        |-> TRUE,
      currentMinute      |-> 1,
      countdownIntro     |-> 10,
      isInCountdownIntro |-> FALSE,
      introTimeRemaining |-> 0 ]

\* JavaScript's a % b for b > 0: the result has the sign of a.
JsRem(a, b) == IF a >= 0 THEN a % b ELSE -((-a) % b)

\* Math.floor(a / b) for b > 0.
JsFloorDiv(a, b) == a \div b

SetModeCase_RestoresDefaults(s, a) ==
    [s EXCEPT !.mode = a.mode,
              !.isRunning = FALSE,
              !.currentTime = 0,
              !.tabata = [workTime |-> 20, restTime |-> 10, rounds |-> 8],
              !.currentRound = 1,
              !.isWorkPhase = TRUE,
              !.currentMinute = 1,
              !.isInCountdownIntro = FALSE,
              !.introTimeRemaining = 0]

SetModeCase(s, a) ==
    [s EXCEPT !.mode = a.mode,
              !.isRunning = FALSE,
              !.currentTime = 0,
              !.currentRound = 1,
              !.isWorkPhase = TRUE,
              !.currentMinute = 1,
              !.isInCountdownIntro = FALSE,
              !.introTimeRemaining = 0]

StartCase_AlwaysIntro(s) ==
    LET supportsIntro == s.mode \notin {"clock", "stopwatch"}
        hasIntro == s.countdownIntro > 0 /\ supportsIntro
    IN  IF hasIntro
        THEN [s EXCEPT !.isRunning = TRUE,
                       !.isInCountdownIntro = TRUE,
                       !.introTimeRemaining = s.countdownIntro * 1000]
        ELSE [s EXCEPT !.isRunning = TRUE]

StartCase_ResumesIntro(s) ==
    LET supportsIntro == s.mode \notin {"clock", "stopwatch"}
        hasIntro == s.countdownIntro > 0 /\ supportsIntro
    IN  IF hasIntro /\ s.currentTime = 0 /\ ~s.isInCountdownIntro
        THEN [s EXCEPT !.isRunning = TRUE,
                       !.isInCountdownIntro = TRUE,
                       !.introTimeRemaining = s.countdownIntro * 1000]
        ELSE [s EXCEPT !.isRunning = TRUE]

StartCase(s) ==
    LET supportsIntro == s.mode \notin {"clock", "stopwatch"}
        hasIntro == s.countdownIntro > 0 /\ supportsIntro
    IN  IF hasIntro /\ s.currentTime = 0
        THEN [s EXCEPT !.isRunning = TRUE,
                       !.isInCountdownIntro = TRUE,
                       !.introTimeRemaining = s.countdownIntro * 1000]
        ELSE [s EXCEPT !.isRunning = TRUE]

StopCase_ClearsTime(s) == [s EXCEPT !.isRunning = FALSE, !.currentTime = 0]

StopCase_EndsIntro(s) ==
    [s EXCEPT !.isRunning = FALSE,
              !.isInCountdownIntro = FALSE,
              !.introTimeRemaining = 0]

StopCase(s) == [s EXCEPT !.isRunning = FALSE]

ResetCase_KeepsIntro(s) ==
    [s EXCEPT !.isRunning = FALSE,
              !.currentTime = 0,
              !.currentRound = 1,
              !.isWorkPhase = TRUE,
              !.currentMinute = 1]

ResetCase_PauseFirst(s) ==
    IF s.isRunning
    THEN [s EXCEPT !.isRunning = FALSE]
    ELSE [s EXCEPT !.currentTime = 0,
                   !.currentRound = 1,
                   !.isWorkPhase = TRUE,
                   !.currentMinute = 1,
                   !.isInCountdownIntro = FALSE,
                   !.introTimeRemaining = 0]

ResetCase(s) ==
    [s EXCEPT !.isRunning = FALSE,
              !.currentTime = 0,
              !.currentRound = 1,
              !.isWorkPhase = TRUE,
              !.currentMinute = 1,
              !.isInCountdownIntro = FALSE,
              !.introTimeRemaining = 0]

TickIntro_CarryOvershoot(s, delta) ==
    LET newIntroRemaining == s.introTimeRemaining - delta
    IN  IF newIntroRemaining <= 0
        THEN [s EXCEPT !.isInCountdownIntro = FALSE,
                       !.introTimeRemaining = 0,
                       !.currentTime = -newIntroRemaining]
        ELSE [s EXCEPT !.introTimeRemaining = newIntroRemaining]

TickIntro_ExitBelowZero(s, delta) ==
    LET newIntroRemaining == s.introTimeRemaining - delta
    IN  IF newIntroRemaining < 0
        THEN [s EXCEPT !.isInCountdownIntro = FALSE,
                       !.introTimeRemaining = 0,
                       !.currentTime = 0]
        ELSE [s EXCEPT !.introTimeRemaining = newIntroRemaining]

\* TICK while state.isInCountdownIntro
TickIntro(s, delta) ==
    LET newIntroRemaining == s.introTimeRemaining - delta
    IN  IF newIntroRemaining <= 0
        THEN [s EXCEPT !.isInCountdownIntro = FALSE,
                       !.introTimeRemaining = 0,
                       !.currentTime = 0]
        ELSE [s EXCEPT !.introTimeRemaining = newIntroRemaining]

NewTime_FixedPeriod(s, delta) == s.currentTime + 10

\* let newTime = state.currentTime + action.delta
NewTime(s, delta) == s.currentTime + delta

TickCountdown_ResetOnComplete(s, newTime, newState) ==
    LET remaining == s.countdown.totalTime * 1000 - newTime
    IN  IF remaining <= 0
        THEN [s EXCEPT !.currentTime = 0, !.isRunning = FALSE]
        ELSE newState

TickCountdown_NoClamp(s, newTime, newState) ==
    LET remaining == s.countdown.totalTime * 1000 - newTime
    IN  IF remaining <= 0
        THEN [newState EXCEPT !.isRunning = FALSE]
        ELSE newState

\* The countdown block of TICK: the completed state, or newState when the
\* block falls through.
TickCountdown(s, newTime, newState) ==
    LET remaining == s.countdown.totalTime * 1000 - newTime
    IN  IF remaining <= 0
        THEN [s EXCEPT !.currentTime = s.countdown.totalTime * 1000,
                       !.isRunning = FALSE]
        ELSE newState

TickTabata_PhaseInclusive(s, newTime, newState) ==
    LET workTime == s.tabata.workTime
        restTime == s.tabata.restTime
        rounds == s.tabata.rounds
        cycleTime == (workTime + restTime) * 1000
        currentCycleTime == JsRem(newTime, cycleTime)
        currentRound == JsFloorDiv(newTime, cycleTime) + 1
        isWorkPhase == currentCycleTime <= workTime * 1000
    IN  IF currentRound > rounds
        THEN [s EXCEPT !.currentTime = rounds * cycleTime,
                       !.isRunning = FALSE,
                       !.currentRound = rounds,
                       !.isWorkPhase = FALSE]
        ELSE [newState EXCEPT !.currentRound = currentRound,
                              !.isWorkPhase = isWorkPhase]

TickTabata_StoresComputedRound(s, newTime, newState) ==
    LET workTime == s.tabata.workTime
        restTime == s.tabata.restTime
        rounds == s.tabata.rounds
        cycleTime == (workTime + restTime) * 1000
        currentCycleTime == JsRem(newTime, cycleTime)
        currentRound == JsFloorDiv(newTime, cycleTime) + 1
        isWorkPhase == currentCycleTime < workTime * 1000
    IN  IF currentRound > rounds
        THEN [s EXCEPT !.currentTime = rounds * cycleTime,
                       !.isRunning = FALSE,
                       !.currentRound = currentRound,
                       !.isWorkPhase = FALSE]
        ELSE [newState EXCEPT !.currentRound = currentRound,
                              !.isWorkPhase = isWorkPhase]

\* The tabata block of TICK.
TickTabata(s, newTime, newState) ==
    LET workTime == s.tabata.workTime
        restTime == s.tabata.restTime
        rounds == s.tabata.rounds
        cycleTime == (workTime + restTime) * 1000
        currentCycleTime == JsRem(newTime, cycleTime)
        currentRound == JsFloorDiv(newTime, cycleTime) + 1
        isWorkPhase == currentCycleTime < workTime * 1000
    IN  IF currentRound > rounds
        THEN [s EXCEPT !.currentTime = rounds * cycleTime,
                       !.isRunning = FALSE,
                       !.currentRound = rounds,
                       !.isWorkPhase = FALSE]
        ELSE [newState EXCEPT !.currentRound = currentRound,
                              !.isWorkPhase = isWorkPhase]

TickEmom_UsesIntervalTime(s, newTime, newState) ==
    LET totalMinutes == s.emom.totalMinutes
        intervalMs == s.emom.intervalTime * 1000
        currentMinute == JsFloorDiv(newTime, intervalMs) + 1
    IN  IF currentMinute > totalMinutes
        THEN [s EXCEPT !.currentTime = totalMinutes * intervalMs,
                       !.isRunning = FALSE,
                       !.currentMinute = totalMinutes]
        ELSE [newState EXCEPT !.currentMinute = currentMinute]

\* The emom block of TICK.
TickEmom(s, newTime, newState) ==
    LET totalMinutes == s.emom.totalMinutes
        currentMinute == JsFloorDiv(newTime, 60000) + 1
    IN  IF currentMinute > totalMinutes
        THEN [s EXCEPT !.currentTime = totalMinutes * 60000,
                       !.isRunning = FALSE,
                       !.currentMinute = totalMinutes]
        ELSE [newState EXCEPT !.currentMinute = currentMinute]

TickAmrap_Exclusive(s, newTime, newState) ==
    LET totalTime == s.amrap.totalTime
    IN  IF newTime > totalTime * 1000
        THEN [s EXCEPT !.currentTime = totalTime * 1000, !.isRunning = FALSE]
        ELSE newState

\* The amrap block of TICK.
TickAmrap(s, newTime, newState) ==
    LET totalTime == s.amrap.totalTime
    IN  IF newTime >= totalTime * 1000
        THEN [s EXCEPT !.currentTime = totalTime * 1000, !.isRunning = FALSE]
        ELSE newState

\* case "TICK"
TickCase_RoundsInEveryMode(s, a) ==
    IF s.isInCountdownIntro
    THEN TickIntro(s, a.delta)
    ELSE LET newTime == NewTime(s, a.delta)
             newState == [s EXCEPT !.currentTime = newTime]
         IN  CASE s.mode = "countdown" -> TickCountdown(s, newTime, newState)
               [] s.mode = "tabata"    -> TickTabata(s, newTime, newState)
               [] s.mode = "emom"      -> TickEmom(s, newTime, newState)
               [] s.mode = "amrap"     -> TickAmrap(s, newTime, newState)
               [] OTHER                -> TickTabata(s, newTime, newState)

TickCase(s, a) ==
    IF s.isInCountdownIntro
    THEN TickIntro(s, a.delta)
    ELSE LET newTime == NewTime(s, a.delta)
             newState == [s EXCEPT !.currentTime = newTime]
         IN  CASE s.mode = "countdown" -> TickCountdown(s, newTime, newState)
               [] s.mode = "tabata"    -> TickTabata(s, newTime, newState)
               [] s.mode = "emom"      -> TickEmom(s, newTime, newState)
               [] s.mode = "amrap"     -> TickAmrap(s, newTime, newState)
               [] OTHER                -> newState

timerReducer_EditPauses(s, a) ==
    CASE a.type = "SET_MODE"            -> SetModeCase(s, a)
      [] a.type = "START"               -> StartCase(s)
      [] a.type = "STOP"                -> StopCase(s)
      [] a.type = "RESET"               -> ResetCase(s)
      [] a.type = "TICK"                -> TickCase(s, a)
      [] a.type = "SET_COUNTDOWN"       -> [s EXCEPT !.countdown = a.settings]
      [] a.type = "SET_TABATA"          -> [s EXCEPT !.tabata = a.settings,
                                                     !.isRunning = FALSE]
      [] a.type = "SET_EMOM"            -> [s EXCEPT !.emom = a.settings]
      [] a.type = "SET_AMRAP"           -> [s EXCEPT !.amrap = a.settings]
      [] a.type = "SET_COUNTDOWN_INTRO" -> [s EXCEPT !.countdownIntro = a.seconds]
      [] OTHER                          -> s

timerReducer_IntroEditRestartsIntro(s, a) ==
    CASE a.type = "SET_MODE"            -> SetModeCase(s, a)
      [] a.type = "START"               -> StartCase(s)
      [] a.type = "STOP"                -> StopCase(s)
      [] a.type = "RESET"               -> ResetCase(s)
      [] a.type = "TICK"                -> TickCase(s, a)
      [] a.type = "SET_COUNTDOWN"       -> [s EXCEPT !.countdown = a.settings]
      [] a.type = "SET_TABATA"          -> [s EXCEPT !.tabata = a.settings]
      [] a.type = "SET_EMOM"            -> [s EXCEPT !.emom = a.settings]
      [] a.type = "SET_AMRAP"           -> [s EXCEPT !.amrap = a.settings]
      [] a.type = "SET_COUNTDOWN_INTRO" ->
            [s EXCEPT !.countdownIntro = a.seconds,
                      !.introTimeRemaining =
                          IF s.isInCountdownIntro THEN a.seconds * 1000 ELSE 0]
      [] OTHER                          -> s

timerReducer(s, a) ==
    CASE a.type = "SET_MODE"            -> SetModeCase(s, a)
      [] a.type = "START"               -> StartCase(s)
      [] a.type = "STOP"                -> StopCase(s)
      [] a.type = "RESET"               -> ResetCase(s)
      [] a.type = "TICK"                -> TickCase(s, a)
      [] a.type = "SET_COUNTDOWN"       -> [s EXCEPT !.countdown = a.settings]
      [] a.type = "SET_TABATA"          -> [s EXCEPT !.tabata = a.settings]
      [] a.type = "SET_EMOM"            -> [s EXCEPT !.emom = a.settings]
      [] a.type = "SET_AMRAP"           -> [s EXCEPT !.amrap = a.settings]
      [] a.type = "SET_COUNTDOWN_INTRO" -> [s EXCEPT !.countdownIntro = a.seconds]
      [] OTHER                          -> s

----------------------------------------------------------------------------
(* The hook's state after construction *)

NoInterval == 0

\* runStart when no effect run has begun the current run.
NoRun == [known |-> FALSE, at |-> 0, elapsed |-> 0]

Init ==
    /\ state = initialState
    /\ action = [type |-> "INIT"]
    /\ rendered = FALSE
    /\ intervalRef = NoInterval
    /\ live = {}
    /\ lastTickRef = 0
    /\ now = 0
    /\ startedAt = 0
    /\ runStart = NoRun

\* dispatch(a): the reducer is applied to the held state
dispatch(a) ==
    /\ state' = timerReducer(state, a)
    /\ action' = a
    /\ startedAt' = IF ~state.isRunning /\ state'.isRunning
                    THEN now
                    ELSE startedAt
    /\ runStart' = IF state'.isRunning THEN runStart ELSE NoRun

----------------------------------------------------------------------------
(* Spec: the reducer under every sequence of actions *)

SetMode(m) ==
    /\ dispatch([type |-> "SET_MODE", mode |-> m])
    /\ UNCHANGED driverVars

Start ==
    /\ dispatch([type |-> "START"])
    /\ UNCHANGED driverVars

Stop ==
    /\ dispatch([type |-> "STOP"])
    /\ UNCHANGED driverVars

Reset ==
    /\ dispatch([type |-> "RESET"])
    /\ UNCHANGED driverVars

Tick(d) ==
    /\ state.currentTime < MaxElapsed
    /\ dispatch([type |-> "TICK", delta |-> d])
    /\ UNCHANGED driverVars

SetCountdown(c) ==
    /\ dispatch([type |-> "SET_COUNTDOWN", settings |-> c])
    /\ UNCHANGED driverVars

SetTabata(t) ==
    /\ dispatch([type |-> "SET_TABATA", settings |-> t])
    /\ UNCHANGED driverVars

SetEmom(e) ==
    /\ dispatch([type |-> "SET_EMOM", settings |-> e])
    /\ UNCHANGED driverVars

SetAmrap(x) ==
    /\ dispatch([type |-> "SET_AMRAP", settings |-> x])
    /\ UNCHANGED driverVars

SetCountdownIntro(n) ==
    /\ dispatch([type |-> "SET_COUNTDOWN_INTRO", seconds |-> n])
    /\ UNCHANGED driverVars

Next ==
    \/ \E m \in Modes : SetMode(m)
    \/ Start
    \/ Stop
    \/ Reset
    \/ \E d \in Deltas : Tick(d)
    \/ \E c \in CountdownChoices : SetCountdown(c)
    \/ \E t \in TabataChoices : SetTabata(t)
    \/ \E e \in EmomChoices : SetEmom(e)
    \/ \E x \in AmrapChoices : SetAmrap(x)
    \/ \E n \in IntroChoices : SetCountdownIntro(n)

Spec == Init /\ [][Next]_vars

----------------------------------------------------------------------------
(* DriverSpec: the hook useTimer *)

\* Wall-clock time that passes between two steps of the hook, in ms.
ClockSteps == {19999, 20000}

\* clearInterval(id)
ClearInterval(lv, id) == lv \ {id}

Cleanup_Nothing(lv, ref) == lv

\* The effect's cleanup, run before the effect runs again.
Cleanup(lv, ref) == IF ref # NoInterval THEN ClearInterval(lv, ref) ELSE lv

\* setInterval returns an id that names no live interval.
FreshIds(lv) == (1..MaxIntervals) \ lv

Effect_LeavesInterval ==
    /\ rendered # state.isRunning
    /\ rendered' = state.isRunning
    /\ IF state.isRunning
       THEN /\ FreshIds(live) # {}
            /\ \E id \in FreshIds(live) :
                  /\ \A other \in FreshIds(live) : id <= other
                  /\ intervalRef' = id
                  /\ live' = live \cup {id}
            /\ lastTickRef' = now
            /\ runStart' = [known |-> TRUE, at |-> now,
                            elapsed |-> state.currentTime]
       ELSE /\ intervalRef' = NoInterval
            /\ UNCHANGED <<live, lastTickRef, runStart>>
    /\ UNCHANGED <<state, action, now, startedAt>>

\* A render that sees a changed state.isRunning, and the timer loop effect
\* that follows it: the previous run's cleanup, then the effect body.
Effect ==
    /\ rendered # state.isRunning
    /\ rendered' = state.isRunning
    /\ LET cleaned == Cleanup(live, intervalRef)
       IN  IF state.isRunning
           THEN /\ FreshIds(cleaned) # {}
                /\ \E id \in FreshIds(cleaned) :
                      /\ \A other \in FreshIds(cleaned) : id <= other
                      /\ intervalRef' = id
                      /\ live' = cleaned \cup {id}
                /\ lastTickRef' = now
                /\ runStart' = [known |-> TRUE, at |-> now,
                                elapsed |-> state.currentTime]
           ELSE /\ live' = Cleanup(cleaned, intervalRef)
                /\ intervalRef' = NoInterval
                /\ UNCHANGED <<lastTickRef, runStart>>
    /\ UNCHANGED <<state, action, now, startedAt>>

IntervalCallback_NominalPeriod(id) ==
    /\ id \in live
    /\ dispatch([type |-> "TICK", delta |-> 10])
    /\ lastTickRef' = now
    /\ UNCHANGED <<rendered, intervalRef, live, now>>

\* The interval callback of a live interval fires.
IntervalCallback(id) ==
    /\ id \in live
    /\ LET delta == now - lastTickRef
       IN  dispatch([type |-> "TICK", delta |-> delta])
    /\ lastTickRef' = now
    /\ UNCHANGED <<rendered, intervalRef, live, now>>

\* toggle(), closed over the state.isRunning of the last render
Toggle ==
    /\ IF rendered
       THEN dispatch([type |-> "STOP"])
       ELSE dispatch([type |-> "START"])
    /\ UNCHANGED driverVars

\* Wall-clock time passes.
AdvanceClock(d) ==
    /\ now + d <= MaxNow
    /\ now' = now + d
    /\ UNCHANGED <<state, action, rendered, intervalRef, live, lastTickRef,
                   startedAt, runStart>>

DriverNext ==
    \/ \E m \in Modes : SetMode(m)
    \/ Start
    \/ Stop
    \/ Reset
    \/ Toggle
    \/ \E c \in CountdownChoices : SetCountdown(c)
    \/ \E n \in IntroChoices : SetCountdownIntro(n)
    \/ \E id \in 1..MaxIntervals : IntervalCallback(id)
    \/ Effect
    \/ \E d \in ClockSteps : AdvanceClock(d)

\* React commits every scheduled render and runs its effects.
DriverSpec == Init /\ [][DriverNext]_vars /\ WF_vars(Effect)

----------------------------------------------------------------------------
(* AppSpec: the hook as the screen drives it *)

\* const showControls = state.mode !== "clock"
ShowControls == state.mode # "clock"

\* The start / pause button, or a press on the landscape display.
PressToggle ==
    /\ ShowControls
    /\ Toggle

\* The reset button, or a long press on the landscape display.
PressReset ==
    /\ ShowControls
    /\ Reset

\* The duration picker, rendered for the countdown mode only.
PickCountdown(c) ==
    /\ state.mode = "countdown"
    /\ SetCountdown(c)

AppNext ==
    \/ \E m \in Modes : SetMode(m)
    \/ PressToggle
    \/ PressReset
    \/ \E c \in CountdownChoices : PickCountdown(c)
    \/ \E id \in 1..MaxIntervals : IntervalCallback(id)
    \/ Effect
    \/ \E d \in ClockSteps : AdvanceClock(d)

AppSpec == Init /\ [][AppNext]_vars /\ WF_vars(Effect)

----------------------------------------------------------------------------
(* SpecBack: the reducer when the measured delta can be negative *)

\* Date.now() - lastTickRef.current after the system clock was set back 20 s,
\* not at all, or forward 20 s.
BackDeltas == {-20000, 0, 20000}

TickBack(d) ==
    /\ state.currentTime < MaxElapsed
    /\ state.currentTime > -MaxElapsed
    /\ state.introTimeRemaining < MaxElapsed
    /\ dispatch([type |-> "TICK", delta |-> d])
    /\ UNCHANGED driverVars

BackNext ==
    \/ \E m \in Modes : SetMode(m)
    \/ Start
    \/ Stop
    \/ Reset
    \/ \E d \in BackDeltas : TickBack(d)

SpecBack == Init /\ [][BackNext]_vars

----------------------------------------------------------------------------
(* Vocabulary of the properties *)

BoundedModes == {"countdown", "tabata", "emom", "amrap"}

\* The completion boundary of a bounded mode, in ms, as the specification
\* states it.
Boundary(s) ==
    CASE s.mode = "countdown" -> s.countdown.totalTime * 1000
      [] s.mode = "amrap"     -> s.amrap.totalTime * 1000
      [] s.mode = "tabata"    ->
            s.tabata.rounds * (s.tabata.workTime + s.tabata.restTime) * 1000
      [] s.mode = "emom"      -> s.emom.totalMinutes * 60000

\* The step applies a TICK with a delta >= 0 to a state that is not in intro.
MainTick ==
    /\ action'.type = "TICK"
    /\ action'.delta >= 0
    /\ ~state.isInCountdownIntro

----------------------------------------------------------------------------
(* C1 *)

\* C1: a TICK (delta >= 0, not in intro) in a bounded mode whose
\* currentTime + delta reaches or passes the mode's boundary leaves
\* isRunning = FALSE and currentTime equal to the boundary exactly.
C1_CompletionExact ==
    [][ (MainTick /\ state.mode \in BoundedModes
           /\ state.currentTime + action'.delta >= Boundary(state))
        => (/\ state'.isRunning = FALSE
            /\ state'.currentTime = Boundary(state)) ]_vars

\* A tabata run of 2 rounds of 20/10 that a TICK has stopped at 60000.
C1_Witness ==
    /\ action.type = "TICK"
    /\ action.delta > 0
    /\ state.mode = "tabata"
    /\ state.tabata = [workTime |-> 20, restTime |-> 10, rounds |-> 2]
    /\ ~state.isRunning
    /\ state.currentTime = 60000

----------------------------------------------------------------------------
(* C2 *)

\* C2 as stated: a TICK with delta >= 0 applied to a running state never
\* decreases currentTime, whatever commands led to that state.
C2_NeverDecreases ==
    [][ (action'.type = "TICK" /\ action'.delta >= 0 /\ state.isRunning)
        => state'.currentTime >= state.currentTime ]_vars

\* C2 amended: a TICK with delta >= 0 applied to a running state never
\* decreases currentTime unless currentTime is already past the boundary of
\* the current settings of a bounded mode (a settings edit lowered it), and
\* then the TICK sets currentTime to that boundary.
C2_NeverDecreasesWithinBoundary ==
    [][ (action'.type = "TICK" /\ action'.delta >= 0 /\ state.isRunning)
        => IF state.mode \in BoundedModes /\ state.currentTime > Boundary(state)
           THEN state'.currentTime = Boundary(state)
           ELSE state'.currentTime >= state.currentTime ]_vars

\* A running countdown that TICKs have advanced without completing it.
C2_Witness ==
    /\ action.type = "TICK"
    /\ state.isRunning
    /\ state.mode = "countdown"
    /\ state.currentTime = 39999
    /\ state.countdown.totalTime = 180

----------------------------------------------------------------------------
(* C5 *)

\* C5: START sets isRunning; it enters intro (isInCountdownIntro,
\* introTimeRemaining = countdownIntro * 1000) exactly when the mode is not
\* clock or stopwatch, countdownIntro > 0 and currentTime = 0, and changes
\* nothing else in either case.
C5_Start ==
    [][ action'.type = "START"
        => LET entersIntro ==
                   /\ state.mode \notin {"clock", "stopwatch"}
                   /\ state.countdownIntro > 0
                   /\ state.currentTime = 0
           IN  /\ state'.isRunning
               /\ entersIntro =>
                     state' = [state EXCEPT
                                  !.isRunning = TRUE,
                                  !.isInCountdownIntro = TRUE,
                                  !.introTimeRemaining = state.countdownIntro * 1000]
               /\ ~entersIntro => state' = [state EXCEPT !.isRunning = TRUE] ]_vars

\* START has entered a 20 s intro in emom mode.
C5_Witness ==
    /\ action.type = "START"
    /\ state.mode = "emom"
    /\ state.isRunning
    /\ state.isInCountdownIntro
    /\ state.countdownIntro = 20
    /\ state.introTimeRemaining = 20000

----------------------------------------------------------------------------
(* C6 *)

\* C6: STOP keeps currentTime, and a START that follows a STOP of a run with
\* currentTime > 0 yields isRunning, not in intro, and the same currentTime.
C6_ResumeNoIntro ==
    [][ /\ action'.type = "STOP" => state'.currentTime = state.currentTime
        /\ (action.type = "STOP" /\ action'.type = "START"
              /\ state.currentTime > 0)
           => (/\ state'.isRunning
               /\ ~state'.isInCountdownIntro
               /\ state'.currentTime = state.currentTime) ]_vars

\* A paused tabata run with an intro configured has been resumed by START.
C6_Witness ==
    /\ action.type = "START"
    /\ state.mode = "tabata"
    /\ state.countdownIntro > 0
    /\ state.currentTime = 19999
    /\ state.isRunning
    /\ ~state.isInCountdownIntro

----------------------------------------------------------------------------
(* C7 *)

\* C7: in intro currentTime is 0; a TICK in intro that leaves
\* introTimeRemaining - delta > 0 stores it and changes nothing else; the
\* TICK that brings it to <= 0 clears isInCountdownIntro, zeroes
\* introTimeRemaining and currentTime (no overshoot is carried over) and
\* changes nothing else.
C7_IntroThenMain ==
    [][ /\ state.isInCountdownIntro => state.currentTime = 0
        /\ (action'.type = "TICK" /\ action'.delta >= 0
              /\ state.isInCountdownIntro)
           => LET left == state.introTimeRemaining - action'.delta
              IN  IF left > 0
                  THEN state' = [state EXCEPT !.introTimeRemaining = left]
                  ELSE state' = [state EXCEPT !.isInCountdownIntro = FALSE,
                                             !.introTimeRemaining = 0,
                                             !.currentTime = 0] ]_vars

\* A 10 s intro has been ended by a TICK of 19999 ms: the main timer is at 0.
C7_Witness ==
    /\ action.type = "TICK"
    /\ action.delta = 19999
    /\ state.countdownIntro = 10
    /\ state.mode \in BoundedModes
    /\ state.isRunning
    /\ ~state.isInCountdownIntro
    /\ state.introTimeRemaining = 0
    /\ state.currentTime = 0

----------------------------------------------------------------------------
(* C8 *)

\* C8: after a TICK (delta >= 0, not in intro) in tabata mode, with
\* cycleMs = (workTime + restTime) * 1000 and e = currentTime + delta: if
\* floor(e / cycleMs) + 1 > rounds the state is stopped at rounds * cycleMs
\* with currentRound = rounds and isWorkPhase = FALSE; otherwise
\* currentRound = floor(currentTime' / cycleMs) + 1 and
\* isWorkPhase = (currentTime' mod cycleMs < workTime * 1000).
C8_TabataDerivation ==
    [][ (MainTick /\ state.mode = "tabata")
        => LET cycleMs == (state.tabata.workTime + state.tabata.restTime) * 1000
               e == state.currentTime + action'.delta
           IN  IF (e \div cycleMs) + 1 > state.tabata.rounds
               THEN /\ state'.currentTime = state.tabata.rounds * cycleMs
                    /\ state'.isRunning = FALSE
                    /\ state'.currentRound = state.tabata.rounds
                    /\ state'.isWorkPhase = FALSE
               ELSE /\ state'.currentTime = e
                    /\ state'.currentRound = (state'.currentTime \div cycleMs) + 1
                    /\ state'.isWorkPhase =
                          ((state'.currentTime % cycleMs) < state.tabata.workTime * 1000)
                    /\ (state.tabata.workTime = 20 /\ state.tabata.restTime = 10) =>
                          /\ e = 19999 => (state'.isWorkPhase /\ state'.currentRound = 1)
                          /\ e = 20000 => (~state'.isWorkPhase /\ state'.currentRound = 1)
                          /\ e = 59999 => (~state'.isWorkPhase /\ state'.currentRound = 2) ]_vars

\* 20/10/2 at 59999: round 2, rest phase, still running.
C8_Witness ==
    /\ action.type = "TICK"
    /\ state.mode = "tabata"
    /\ state.tabata = [workTime |-> 20, restTime |-> 10, rounds |-> 2]
    /\ state.currentTime = 59999
    /\ state.currentRound = 2
    /\ ~state.isWorkPhase
    /\ state.isRunning

----------------------------------------------------------------------------
(* C9 *)

\* C9: after a TICK (delta >= 0, not in intro) in emom mode, with
\* e = currentTime + delta: if floor(e / 60000) + 1 <= totalMinutes then
\* currentTime = e and currentMinute = floor(e / 60000) + 1, otherwise
\* currentTime = totalMinutes * 60000, isRunning = FALSE and
\* currentMinute = totalMinutes; nothing else changes, whatever intervalTime is.
C9_EmomDerivation ==
    [][ (MainTick /\ state.mode = "emom")
        => LET e == state.currentTime + action'.delta
               m == (e \div 60000) + 1
           IN  IF m <= state.emom.totalMinutes
               THEN state' = [state EXCEPT !.currentTime = e,
                                          !.currentMinute = m]
               ELSE state' = [state EXCEPT
                                 !.currentTime = state.emom.totalMinutes * 60000,
                                 !.isRunning = FALSE,
                                 !.currentMinute = state.emom.totalMinutes] ]_vars

\* With intervalTime = 30, a TICK has moved a running emom into minute 2.
C9_Witness ==
    /\ action.type = "TICK"
    /\ state.mode = "emom"
    /\ state.emom = [intervalTime |-> 30, totalMinutes |-> 2]
    /\ state.isRunning
    /\ state.currentTime = 60000
    /\ state.currentMinute = 2

----------------------------------------------------------------------------
(* C10 *)

\* C10: a TICK (delta >= 0, not in intro) in stopwatch or clock mode, or in
\* a bounded mode with currentTime + delta below the boundary, sets
\* currentTime to exactly currentTime + delta and leaves isRunning as it was.
C10_AccumulationExact ==
    [][ (MainTick
           /\ \/ state.mode \in {"stopwatch", "clock"}
              \/ /\ state.mode \in BoundedModes
                 /\ state.currentTime + action'.delta < Boundary(state))
        => (/\ state'.currentTime = state.currentTime + action'.delta
            /\ state'.isRunning = state.isRunning) ]_vars

\* A running stopwatch after TICKs of 19999 and 20000 ms.
C10_Witness ==
    /\ action.type = "TICK"
    /\ state.mode = "stopwatch"
    /\ state.isRunning
    /\ state.currentTime = 39999

----------------------------------------------------------------------------
(* C3 *)

\* C3: once isRunning is FALSE no wake-up TICK reaches the engine before the
\* next START: a TICK is applied only to a running state, so the currentTime
\* of a stopped engine is the same at the STOP and at the following START.
C3_NoTickWhileStopped ==
    [][ (action'.type = "TICK" /\ ~state.isRunning)
        => state'.currentTime = state.currentTime ]_vars

----------------------------------------------------------------------------
(* C4 *)

\* C4: whenever isRunning becomes FALSE the interval is subsequently cleared
\* and stays cleared until isRunning becomes TRUE again: at every step that
\* takes isRunning from FALSE to TRUE no interval is live.
C4_RestartFindsSourceInactive ==
    [][ (~state.isRunning /\ state'.isRunning) => live = {} ]_vars

\* C4, as far as it holds of the hook: once isRunning is FALSE the interval
\* is eventually cleared unless the engine is started again first, while
\* isRunning stays FALSE no interval is made, and once isRunning is TRUE an
\* interval is eventually live unless the engine is stopped again first.
C4_WakeSourceFollowsRunning ==
    /\ (~state.isRunning) ~> (live = {} \/ state.isRunning)
    /\ state.isRunning ~> (live # {} \/ ~state.isRunning)
    /\ [][ (~state.isRunning /\ ~state'.isRunning /\ live = {})
           => live' = {} ]_vars

\* A countdown that a TICK completed, its interval cleared by the effect.
C4_Witness ==
    /\ action.type = "TICK"
    /\ state.mode = "countdown"
    /\ state.currentTime = state.countdown.totalTime * 1000
    /\ ~state.isRunning
    /\ ~rendered
    /\ live = {}
    /\ intervalRef = NoInterval
    /\ lastTickRef > 0

----------------------------------------------------------------------------
(* C11 *)

\* The commands that recompute or zero the progress fields.
Recomputing == {"TICK", "RESET", "SET_MODE"}

\* The commands that replace a settings object.
SettingsEdits == {"SET_COUNTDOWN", "SET_TABATA", "SET_EMOM", "SET_AMRAP"}

\* currentTime is at most the boundary of the current settings.
WithinBoundary(s) ==
    s.mode \in BoundedModes => s.currentTime <= Boundary(s)

\* C11 as stated: in every reachable state of a bounded mode currentTime is
\* at most the boundary computed from the current settings, settings edits
\* included.
C11_AlwaysWithinBoundary == WithinBoundary(state)

\* C11 amended: every TICK (delta >= 0), RESET and SET_MODE leaves
\* currentTime at most the boundary of the current settings, and START, STOP
\* and SET_COUNTDOWN_INTRO keep it so; only a settings edit can leave
\* currentTime above the (new) boundary, until the next TICK, RESET or
\* SET_MODE.
C11_WithinBoundaryUntilEdit ==
    [][ /\ (action'.type \in Recomputing) => WithinBoundary(state')
        /\ (action'.type \notin SettingsEdits /\ WithinBoundary(state))
           => WithinBoundary(state') ]_vars

\* An amrap of 60 s stopped at 60000 by a TICK of 19999 ms: 60000 is no sum
\* of the deltas ending in 19999, so the TICK has clamped currentTime.
C11_Witness ==
    /\ action.type = "TICK"
    /\ action.delta = 19999
    /\ state.mode = "amrap"
    /\ state.amrap.totalTime = 60
    /\ state.currentTime = 60000
    /\ ~state.isRunning

----------------------------------------------------------------------------
(* C12 *)

\* currentRound and currentMinute are within the configured counts.
WithinCounts(s) ==
    /\ s.currentRound <= s.tabata.rounds
    /\ s.currentMinute <= s.emom.totalMinutes

\* C12 as stated: in every reachable state currentRound is in
\* 1..tabata.rounds and currentMinute is in 1..emom.totalMinutes.
C12_AlwaysWithinCounts ==
    /\ state.currentRound >= 1
    /\ state.currentMinute >= 1
    /\ WithinCounts(state)

\* C12 amended: currentRound >= 1 and currentMinute >= 1 after every step;
\* every TICK (delta >= 0), RESET and SET_MODE leaves currentRound <=
\* tabata.rounds and currentMinute <= emom.totalMinutes, and START, STOP and
\* SET_COUNTDOWN_INTRO keep them so; only a settings edit can leave a count
\* above its (new) maximum, until the next TICK, RESET or SET_MODE.
C12_WithinCountsUntilEdit ==
    [][ /\ state'.currentRound >= 1
        /\ state'.currentMinute >= 1
        /\ (action'.type \in Recomputing) => WithinCounts(state')
        /\ (action'.type \notin SettingsEdits /\ WithinCounts(state))
           => WithinCounts(state') ]_vars

\* A tabata of 1 round of 10/20 that a TICK has stopped at 30000 with
\* currentRound = 1, in the rest phase.
C12_Witness ==
    /\ action.type = "TICK"
    /\ state.mode = "tabata"
    /\ state.tabata = [workTime |-> 10, restTime |-> 20, rounds |-> 1]
    /\ state.currentTime = 30000
    /\ state.currentRound = 1
    /\ ~state.isWorkPhase
    /\ ~state.isRunning

----------------------------------------------------------------------------
(* C13 *)

\* s with the progress and intro fields at their defaults and the engine
\* stopped; mode, the four settings objects and countdownIntro as in s.
Cleared(s) ==
    [s EXCEPT !.isRunning = FALSE,
              !.currentTime = 0,
              !.currentRound = 1,
              !.currentMinute = 1,
              !.isWorkPhase = TRUE,
              !.isInCountdownIntro = FALSE,
              !.introTimeRemaining = 0]

\* C13: SET_MODE m yields the state with mode = m, isRunning = FALSE,
\* currentTime = 0, currentRound = 1, currentMinute = 1, isWorkPhase = TRUE,
\* isInCountdownIntro = FALSE, introTimeRemaining = 0 and every settings
\* object and countdownIntro as before; RESET yields the same with the mode
\* unchanged, which is what SET_MODE of the current mode yields.
C13_SetModeAndReset ==
    [][ /\ action'.type = "SET_MODE"
           => state' = [Cleared(state) EXCEPT !.mode = action'.mode]
        /\ action'.type = "RESET"
           => /\ state' = Cleared(state)
              /\ state' = timerReducer(state, [type |-> "SET_MODE",
                                               mode |-> state.mode]) ]_vars

\* RESET has cleared an emom engine whose settings and intro are not the
\* defaults.
C13_Witness ==
    /\ action.type = "RESET"
    /\ state.mode = "emom"
    /\ state.emom = [intervalTime |-> 30, totalMinutes |-> 2]
    /\ state.countdownIntro = 20
    /\ state = Cleared(state)

----------------------------------------------------------------------------
(* C14 *)

\* The four settings objects and countdownIntro.
SettingsOf(s) == <<s.countdown, s.tabata, s.emom, s.amrap, s.countdownIntro>>

\* SET_MODE a; SET_MODE b; SET_MODE a applied to s.
SwitchThereAndBack(s, a, b) ==
    timerReducer(
        timerReducer(
            timerReducer(s, [type |-> "SET_MODE", mode |-> a]),
            [type |-> "SET_MODE", mode |-> b]),
        [type |-> "SET_MODE", mode |-> a])

\* C14: from every reachable state and for all modes a and b, SET_MODE a;
\* SET_MODE b; SET_MODE a leaves the countdown, tabata, emom and amrap
\* settings and countdownIntro exactly as they were (and the mode is a).
C14_SettingsPersist ==
    \A a \in Modes : \A b \in Modes :
        LET back == SwitchThereAndBack(state, a, b)
        IN  /\ SettingsOf(back) = SettingsOf(state)
            /\ back.mode = a

\* A mode switch has been applied to an engine none of whose settings is the
\* default.
C14_Witness ==
    /\ action.type = "SET_MODE"
    /\ state.mode = "tabata"
    /\ state.countdown = [totalTime |-> 20]
    /\ state.tabata = [workTime |-> 10, restTime |-> 20, rounds |-> 1]
    /\ state.emom = [intervalTime |-> 30, totalMinutes |-> 2]
    /\ state.amrap = [totalTime |-> 60]
    /\ state.countdownIntro = 0

----------------------------------------------------------------------------
(* C15 *)

\* C15: RESET applied twice yields the state RESET yields once, from every
\* reachable state; a RESET that follows a RESET changes no field.
C15_ResetIdempotent ==
    [][ /\ LET once == timerReducer(state, [type |-> "RESET"])
           IN  timerReducer(once, [type |-> "RESET"]) = once
        /\ (action.type = "RESET" /\ action'.type = "RESET")
           => state' = state ]_vars

\* RESET has been applied to an amrap engine of 60 s with a 20 s intro.
C15_Witness ==
    /\ action.type = "RESET"
    /\ state.mode = "amrap"
    /\ state.amrap = [totalTime |-> 60]
    /\ state.countdownIntro = 20
    /\ ~state.isRunning
    /\ state.currentTime = 0

----------------------------------------------------------------------------
(* C16 *)

\* C16: STOP yields the state with isRunning = FALSE and every other field,
\* the intro fields included, as before.
C16_StopFrame ==
    [][ action'.type = "STOP"
        => state' = [state EXCEPT !.isRunning = FALSE] ]_vars

\* A countdown stopped in its intro with 1 ms of the intro left.
C16_Witness ==
    /\ action.type = "STOP"
    /\ state.mode = "countdown"
    /\ ~state.isRunning
    /\ state.isInCountdownIntro
    /\ state.introTimeRemaining = 1
    /\ state.currentTime = 0

----------------------------------------------------------------------------
(* C17 *)

\* C17: every time isRunning goes from FALSE to TRUE lastTickRef is set to
\* that instant before an interval callback fires, so no TICK applied to a
\* running engine measures its delta from an instant before the engine was
\* started.
C17_SeededBeforeFirstTick ==
    [][ (action'.type = "TICK" /\ state.isRunning)
        => lastTickRef >= startedAt ]_vars

\* C17, as far as it holds of the hook: the effect run of a render that sees
\* isRunning newly TRUE sets lastTickRef to the instant it runs at and
\* leaves exactly the interval it makes live.
C17_EffectSeedsTimestamp ==
    [][ (~rendered /\ rendered')
        => (lastTickRef' = now /\ live' = {intervalRef'}) ]_vars

----------------------------------------------------------------------------
(* C18 *)

\* C18: in stopwatch mode, from the effect run that began the run and for as
\* long as nothing stops the engine, the increase of currentTime equals the
\* wall-clock time from that effect run to the latest interval callback
\* (lastTickRef), however the callbacks are spaced.
C18_DriftFree ==
    (runStart.known /\ state.mode = "stopwatch")
        => state.currentTime - runStart.elapsed = lastTickRef - runStart.at

\* A stopwatch run begun at 20000 with callbacks 19999 ms and then 20000 ms
\* later: 39999 ms elapsed at 59999.
C18_Witness ==
    /\ action.type = "TICK"
    /\ state.mode = "stopwatch"
    /\ state.isRunning
    /\ runStart.known
    /\ runStart.at = 20000
    /\ runStart.elapsed = 0
    /\ lastTickRef = 59999
    /\ state.currentTime = 39999

----------------------------------------------------------------------------
(* C19 *)

\* C19: no reachable state of the app has mode = "clock" with isRunning, and
\* currentTime is 0 whenever the mode is clock.
C19_ClockNeverRuns ==
    state.mode = "clock" => (~state.isRunning /\ state.currentTime = 0)

\* C19, as far as it holds of the app: the mode is never clock with
\* isRunning TRUE.
C19_ClockNotRunning ==
    state.mode = "clock" => ~state.isRunning

----------------------------------------------------------------------------
(* C20 *)

\* C20: a TICK with delta <= 0 never decreases currentTime.
C20_NonPositiveDeltaKeepsTime ==
    [][ (action'.type = "TICK" /\ action'.delta <= 0)
        => state'.currentTime >= state.currentTime ]_vars

----------------------------------------------------------------------------
(* C21 *)

\* The settings edits the model dispatches.
EditActions ==
    {[type |-> "SET_COUNTDOWN", settings |-> c] : c \in CountdownChoices}
    \cup {[type |-> "SET_TABATA", settings |-> x] : x \in TabataChoices}
    \cup {[type |-> "SET_EMOM", settings |-> e] : e \in EmomChoices}
    \cup {[type |-> "SET_AMRAP", settings |-> x] : x \in AmrapChoices}

\* C21: a settings edit changes neither currentTime nor isRunning, whatever
\* the state; and from every state of a bounded mode, not in intro, whose
\* boundary is at or below currentTime (an edit has lowered it), a TICK with
\* delta >= 0 yields isRunning = FALSE and currentTime = the boundary.
C21_EditThenTickStops ==
    /\ \A e \in EditActions :
          LET edited == timerReducer(state, e)
          IN  /\ edited.currentTime = state.currentTime
              /\ edited.isRunning = state.isRunning
    /\ (/\ state.mode \in BoundedModes
        /\ ~state.isInCountdownIntro
        /\ Boundary(state) <= state.currentTime)
       => \A d \in Deltas :
             LET ticked == timerReducer(state, [type |-> "TICK", delta |-> d])
             IN  /\ ~ticked.isRunning
                 /\ ticked.currentTime = Boundary(state)

\* A running tabata at 39999 ms whose settings were just edited to one round
\* of 10/20: the boundary is now 30000.
C21_Witness ==
    /\ action.type = "SET_TABATA"
    /\ state.mode = "tabata"
    /\ state.isRunning
    /\ ~state.isInCountdownIntro
    /\ state.currentTime = 39999
    /\ state.tabata = [workTime |-> 10, restTime |-> 20, rounds |-> 1]

----------------------------------------------------------------------------
(* C22 *)

\* C22: driven through the screen, every settings edit is applied to a state
\* with isRunning = FALSE and currentTime = 0.
C22_EditsOnlyWhenIdle ==
    [][ (action'.type \in SettingsEdits)
        => (~state.isRunning /\ state.currentTime = 0) ]_vars

----------------------------------------------------------------------------
(* C23 *)

\* The field a settings edit replaces.
EditedField(e) ==
    CASE e.type = "SET_COUNTDOWN" -> "countdown"
      [] e.type = "SET_TABATA"    -> "tabata"
      [] e.type = "SET_EMOM"      -> "emom"
      [] e.type = "SET_AMRAP"     -> "amrap"

\* C23: from every state, running or in intro included, a settings edit
\* yields the state with that mode's settings object replaced and every
\* other field as it was.
C23_EditFrame ==
    \A e \in EditActions :
        timerReducer(state, e) = [state EXCEPT ![EditedField(e)] = e.settings]

\* The tabata settings were replaced during a running intro; the intro goes
\* on with 1 ms left.
C23_Witness ==
    /\ action.type = "SET_TABATA"
    /\ state.tabata = [workTime |-> 10, restTime |-> 20, rounds |-> 1]
    /\ state.mode = "tabata"
    /\ state.isRunning
    /\ state.isInCountdownIntro
    /\ state.introTimeRemaining = 1

----------------------------------------------------------------------------
(* C24 *)

\* C24: from every state, an intro in progress included,
\* SET_COUNTDOWN_INTRO n yields the state with countdownIntro = n and every
\* other field as it was.
C24_IntroEditFrame ==
    \A n \in IntroChoices :
        timerReducer(state, [type |-> "SET_COUNTDOWN_INTRO", seconds |-> n])
            = [state EXCEPT !.countdownIntro = n]

\* countdownIntro was set to 20 during a 10 s intro: 10000 ms remain.
C24_Witness ==
    /\ action = [type |-> "SET_COUNTDOWN_INTRO", seconds |-> 20]
    /\ state.countdownIntro = 20
    /\ state.isRunning
    /\ state.isInCountdownIntro
    /\ state.introTimeRemaining = 10000

----------------------------------------------------------------------------
(* C25 *)

\* C25: every toggle() negates isRunning, also when interval callbacks are
\* interleaved with it: the START or STOP that toggle() dispatches right
\* after the TICK that completed a bounded run leaves isRunning the negation
\* of what it was.
C25_ToggleNegates ==
    [][ (/\ action.type = "TICK"
         /\ state.mode \in BoundedModes
         /\ state.currentTime = Boundary(state)
         /\ action'.type \in {"START", "STOP"})
        => state'.isRunning = ~state.isRunning ]_vars

----------------------------------------------------------------------------
(* C26 *)

\* C26: before any action is applied the state is: mode stopwatch, stopped,
\* currentTime 0, currentRound 1, currentMinute 1, work phase, not in intro
\* with introTimeRemaining 0, tabata 20/10/8, emom 60 s x 10 minutes, amrap
\* 600 s, countdown 180 s and countdownIntro nonzero.
C26_InitialState ==
    action.type = "INIT"
    => /\ state.mode = "stopwatch"
       /\ state.isRunning = FALSE
       /\ state.currentTime = 0
       /\ state.currentRound = 1
       /\ state.currentMinute = 1
       /\ state.isWorkPhase = TRUE
       /\ state.isInCountdownIntro = FALSE
       /\ state.introTimeRemaining = 0
       /\ state.tabata = [workTime |-> 20, restTime |-> 10, rounds |-> 8]
       /\ state.emom = [intervalTime |-> 60, totalMinutes |-> 10]
       /\ state.amrap = [totalTime |-> 600]
       /\ state.countdown = [totalTime |-> 180]
       /\ state.countdownIntro > 0
       /\ DOMAIN state = {"mode", "isRunning", "currentTime", "countdown",
                          "tabata", "emom", "amrap", "currentRound",
                          "isWorkPhase", "currentMinute", "countdownIntro",
                          "isInCountdownIntro", "introTimeRemaining"}

\* The state the hook is constructed with, no action applied yet.
C26_Witness ==
    /\ action.type = "INIT"
    /\ state.mode = "stopwatch"
    /\ state.countdownIntro = 10
    /\ intervalRef = NoInterval
    /\ live = {}

----------------------------------------------------------------------------
(* C27 *)

\* A bounded mode stopped with currentTime at the boundary.
AtBoundary(s) ==
    /\ s.mode \in BoundedModes
    /\ ~s.isRunning
    /\ s.currentTime = Boundary(s)

\* currentRound, isWorkPhase and currentMinute are as a completing TICK
\* leaves them.
CountsSettled(s) ==
    CASE s.mode = "tabata" -> s.currentRound = s.tabata.rounds /\ ~s.isWorkPhase
      [] s.mode = "emom"   -> s.currentMinute = s.emom.totalMinutes
      [] OTHER             -> TRUE

\* The commands that are neither RESET, SET_MODE nor a settings edit, with
\* the TICK deltas and intro values of the model.
TimingActions ==
    {[type |-> "START"], [type |-> "STOP"]}
    \cup {[type |-> "TICK", delta |-> d] : d \in Deltas}
    \cup {[type |-> "SET_COUNTDOWN_INTRO", seconds |-> n] : n \in IntroChoices}

\* START then TICK d applied to s.
StartThenTick(s, d) ==
    timerReducer(timerReducer(s, [type |-> "START"]),
                 [type |-> "TICK", delta |-> d])

\* C27 as stated: in every state of a bounded mode with isRunning = FALSE
\* and currentTime at the boundary, a TICK with delta >= 0 leaves the whole
\* state unchanged, START followed by a TICK returns to isRunning = FALSE
\* with currentTime at the boundary, and no command other than RESET,
\* SET_MODE and the settings edits changes currentTime.
C27_CompletedAbsorbing ==
    AtBoundary(state)
    => /\ \A d \in Deltas :
             /\ timerReducer(state, [type |-> "TICK", delta |-> d]) = state
             /\ AtBoundary(StartThenTick(state, d))
       /\ \A a \in TimingActions :
             timerReducer(state, a).currentTime = state.currentTime

\* C27 amended: in every state of a bounded mode with isRunning = FALSE and
\* currentTime at the boundary, a TICK with delta >= 0 leaves isRunning,
\* currentTime and every field other than currentRound, isWorkPhase and
\* currentMinute unchanged, and leaves those three as a completing TICK
\* does; it leaves the whole state unchanged when they already are so (the
\* run was completed by a TICK, not brought to the boundary by a settings
\* edit).  START followed by a TICK returns to isRunning = FALSE with
\* currentTime at the boundary, and no command other than RESET, SET_MODE
\* and the settings edits changes currentTime.
C27_CompletedAbsorbingTiming ==
    AtBoundary(state)
    => /\ \A d \in Deltas :
             LET ticked == timerReducer(state, [type |-> "TICK", delta |-> d])
             IN  /\ AtBoundary(ticked)
                 /\ CountsSettled(ticked)
                 /\ ticked = [state EXCEPT
                                 !.currentRound = ticked.currentRound,
                                 !.isWorkPhase = ticked.isWorkPhase,
                                 !.currentMinute = ticked.currentMinute]
                 /\ CountsSettled(state) => ticked = state
                 /\ AtBoundary(StartThenTick(state, d))
                 /\ CountsSettled(StartThenTick(state, d))
       /\ \A a \in TimingActions :
             timerReducer(state, a).currentTime = state.currentTime

\* A tabata of 2 rounds of 20/10 stopped at its boundary 60000, to which a
\* further TICK of 0 ms has been applied.
C27_Witness ==
    /\ action = [type |-> "TICK", delta |-> 0]
    /\ state.mode = "tabata"
    /\ state.tabata = [workTime |-> 20, restTime |-> 10, rounds |-> 2]
    /\ state.currentTime = 60000
    /\ state.currentRound = 2
    /\ ~state.isWorkPhase
    /\ ~state.isRunning

----------------------------------------------------------------------------
(* RunSpec: one bounded run, set up at instant 0 and then left alone *)

\* The wall clock of a run is explored up to this instant; the longest run
\* of the model (a 20 s intro, then emom 10 x 60 s) ends before it.
MaxRunNow == 700000

\* Nothing is running, rendered as running or live, and no time has passed:
\* the run has not been started.
Quiet ==
    /\ now = 0
    /\ ~state.isRunning
    /\ ~rendered
    /\ live = {}

\* The first command selects the bounded mode of the run.
RunSetMode(m) ==
    /\ action.type = "INIT"
    /\ SetMode(m)

\* The pickers of the selected mode, before the run is started.
RunPick(e) ==
    /\ Quiet
    /\ action.type # "INIT"
    /\ EditedField(e) = state.mode
    /\ dispatch(e)
    /\ UNCHANGED driverVars

RunSetIntro(n) ==
    /\ Quiet
    /\ action.type # "INIT"
    /\ SetCountdownIntro(n)

RunStart ==
    /\ Quiet
    /\ action.type # "INIT"
    /\ Start

\* Wall-clock time passes while an interval is live, once its callback has
\* handled the present instant: the callbacks are 19999 or 20000 ms apart.
RunClock(d) ==
    /\ live # {}
    /\ now = lastTickRef
    /\ now + d <= MaxRunNow
    /\ now' = now + d
    /\ UNCHANGED <<state, action, rendered, intervalRef, live, lastTickRef,
                   startedAt, runStart>>

RunNext ==
    \/ \E m \in BoundedModes : RunSetMode(m)
    \/ \E e \in EditActions : RunPick(e)
    \/ \E n \in IntroChoices : RunSetIntro(n)
    \/ RunStart
    \/ Effect
    \/ \E id \in 1..MaxIntervals : IntervalCallback(id)
    \/ \E d \in ClockSteps : RunClock(d)

\* React commits every scheduled render, a live interval keeps calling back,
\* and time keeps passing.
RunSpec ==
    /\ Init
    /\ [][RunNext]_vars
    /\ WF_vars(Effect)
    /\ WF_vars(\E id \in 1..MaxIntervals : IntervalCallback(id))
    /\ WF_vars(\E d \in ClockSteps : RunClock(d))

----------------------------------------------------------------------------
(* C28 *)

\* C28: a started run of a bounded mode that is left alone eventually
\* leaves the intro, and eventually is stopped with currentTime at the
\* boundary, out of the intro and with no interval live.
C28_RunTerminates ==
    /\ state.isInCountdownIntro ~> ~state.isInCountdownIntro
    /\ (state.isRunning /\ state.mode \in BoundedModes)
          ~> (/\ AtBoundary(state)
              /\ ~state.isInCountdownIntro
              /\ live = {})

\* An emom of 10 minutes with a 20 s intro has run to 600000 and the effect
\* has cleared its interval.
C28_Witness ==
    /\ action.type = "TICK"
    /\ state.mode = "emom"
    /\ state.emom.totalMinutes = 10
    /\ state.countdownIntro = 20
    /\ state.currentTime = 600000
    /\ state.currentMinute = 10
    /\ ~state.isRunning
    /\ ~rendered
    /\ live = {}

----------------------------------------------------------------------------
(* C29 *)

\* Every action the model dispatches.
AllActions ==
    TimingActions
    \cup EditActions
    \cup {[type |-> "RESET"]}
    \cup {[type |-> "SET_MODE", mode |-> m] : m \in Modes}

\* C29: in every reachable state isInCountdownIntro implies currentTime = 0,
\* and no action applied to a state in intro changes currentTime.
C29_IntroAtZero ==
    state.isInCountdownIntro
    => /\ state.currentTime = 0
       /\ \A a \in AllActions :
             timerReducer(state, a).currentTime = state.currentTime

\* A running intro of 20 s with 1 ms left after a TICK of 19999 ms.
C29_Witness ==
    /\ action = [type |-> "TICK", delta |-> 19999]
    /\ state.isInCountdownIntro
    /\ state.isRunning
    /\ state.countdownIntro = 20
    /\ state.introTimeRemaining = 1
    /\ state.currentTime = 0

----------------------------------------------------------------------------
(* C30 *)

----------------------------------------------------------------------------
(* C31 *)

\* C31: in every reachable state (deltas >= 0) isInCountdownIntro is true
\* exactly when introTimeRemaining > 0, and introTimeRemaining is 0 whenever
\* isInCountdownIntro is false.
C31_IntroFlagMatchesRemaining ==
    /\ state.isInCountdownIntro <=> state.introTimeRemaining > 0
    /\ ~state.isInCountdownIntro => state.introTimeRemaining = 0

\* An intro of 10 s has just been ended by a TICK that overshot it: the flag
\* and the remaining time were cleared together.
C31_Witness ==
    /\ action = [type |-> "TICK", delta |-> 19999]
    /\ state.countdownIntro = 10
    /\ state.mode \in BoundedModes
    /\ state.isRunning
    /\ ~state.isInCountdownIntro
    /\ state.introTimeRemaining = 0
    /\ state.currentTime = 0

----------------------------------------------------------------------------
(* C32 *)

\* C32: in every reachable state with isInCountdownIntro = TRUE the mode is
\* countdown, tabata, emom or amrap, and currentRound = 1, currentMinute = 1
\* and isWorkPhase = TRUE; a TICK that ends the intro therefore hands the
\* main timer a state in the first round, first minute and work phase.
C32_IntroInFirstRound ==
    state.isInCountdownIntro
    => /\ state.mode \in BoundedModes
       /\ state.currentRound = 1
       /\ state.currentMinute = 1
       /\ state.isWorkPhase
       /\ \A d \in Deltas :
             LET t == timerReducer(state, [type |-> "TICK", delta |-> d])
             IN  /\ t.mode = state.mode
                 /\ t.currentRound = 1
                 /\ t.currentMinute = 1
                 /\ t.isWorkPhase

\* A tabata of two rounds is in a fresh 10 s intro entered by START.
C32_Witness ==
    /\ action.type = "START"
    /\ state.mode = "tabata"
    /\ state.tabata.rounds = 2
    /\ state.isRunning
    /\ state.isInCountdownIntro
    /\ state.introTimeRemaining = 10000
    /\ state.currentRound = 1
    /\ state.isWorkPhase

----------------------------------------------------------------------------
(* C33 *)

\* C33: in every reachable state with currentTime = 0, a mode that supports
\* the intro and countdownIntro > 0, START sets introTimeRemaining to the
\* full countdownIntro * 1000 and enters the intro, whatever the intro state
\* was: so does STOP followed by START, both during an intro (which restarts
\* from its full duration) and after the intro has ended with currentTime
\* still 0 (which enters the intro again).
C33_StartRestartsIntro ==
    (/\ state.currentTime = 0
     /\ state.mode \in BoundedModes
     /\ state.countdownIntro > 0)
    => LET full == state.countdownIntro * 1000
           started == timerReducer(state, [type |-> "START"])
           stopped == timerReducer(state, [type |-> "STOP"])
           resumed == timerReducer(stopped, [type |-> "START"])
       IN  /\ started.isRunning
           /\ started.isInCountdownIntro
           /\ started.introTimeRemaining = full
           /\ stopped.isInCountdownIntro = state.isInCountdownIntro
           /\ stopped.introTimeRemaining = state.introTimeRemaining
           /\ resumed = started

\* An intro of 20 s has been stopped with 1 ms left; START applied to this
\* state brings the whole 20 s back.
C33_Witness ==
    /\ action.type = "STOP"
    /\ ~state.isRunning
    /\ state.isInCountdownIntro
    /\ state.countdownIntro = 20
    /\ state.introTimeRemaining = 1
    /\ state.currentTime = 0
    /\ state.mode = "amrap"
    /\ timerReducer(state, [type |-> "START"]).introTimeRemaining = 20000

----------------------------------------------------------------------------
(* Runs with fixed settings: the reducer under every sequence of actions in
   which the settings of a run are chosen before its first START, STOP or
   TICK.  A run begins at construction, at a SET_MODE or at a RESET. *)

\* A settings edit at the opening of a run: nothing but construction,
\* SET_MODE, RESET or other settings edits has been dispatched since the run
\* began.
SteadyEdit(e) ==
    /\ action.type \in {"INIT", "SET_MODE", "RESET"} \cup SettingsEdits
    /\ dispatch(e)
    /\ UNCHANGED driverVars

SteadyNext ==
    \/ \E m \in Modes : SetMode(m)
    \/ Start
    \/ Stop
    \/ Reset
    \/ \E d \in Deltas : Tick(d)
    \/ \E e \in EditActions : SteadyEdit(e)
    \/ \E n \in IntroChoices : SetCountdownIntro(n)

SteadySpec == Init /\ [][SteadyNext]_vars

----------------------------------------------------------------------------
(* C34 *)

\* TICK (delta >= 0), STOP and START.
RunActions ==
    {[type |-> "START"], [type |-> "STOP"]}
    \cup {[type |-> "TICK", delta |-> d] : d \in Deltas}

\* C34: within a run (between two consecutive RESET/SET_MODE) with the
\* settings unchanged and deltas >= 0, neither the tabata currentRound nor
\* the emom currentMinute decreases from one state to the next under TICK,
\* STOP or START, in any interleaving.
C34_RoundAndMinuteMonotone ==
    \A a \in RunActions :
        LET t == timerReducer(state, a)
        IN  /\ t.currentRound >= state.currentRound
            /\ t.currentMinute >= state.currentMinute

\* A tabata of 20/10 x 8 was stopped in its second round and started again:
\* the round is still 2, and the next TICK of 20 s moves it to 3.
C34_Witness ==
    /\ action.type = "START"
    /\ state.mode = "tabata"
    /\ state.tabata = [workTime |-> 20, restTime |-> 10, rounds |-> 8]
    /\ state.isRunning
    /\ ~state.isInCountdownIntro
    /\ state.currentTime = 40000
    /\ state.currentRound = 2
    /\ timerReducer(state, [type |-> "TICK", delta |-> 20000]).currentRound = 3

----------------------------------------------------------------------------
(* The formatters (utils/timeFormat): pure functions of the snapshot.  A
   string is a sequence of one-character strings. *)

DigitChars == <<"0", "1", "2", "3", "4", "5", "6", "7", "8", "9">>

\* Number.prototype.toString() of an integer n >= 0
RECURSIVE toString(_)
toString(n) ==
    IF n < 10
    THEN <<DigitChars[n + 1]>>
    ELSE toString(n \div 10) \o <<DigitChars[(n % 10) + 1]>>

\* str.padStart(2, "0")
PadStart2(str) == IF Len(str) < 2 THEN <<"0">> \o str ELSE str

\* Math.max(0, x)
MaxZero(x) == IF x > 0 THEN x ELSE 0

formatTime(ms, showMillis) ==
    LET totalSeconds == JsFloorDiv(ms, 1000)
        minutes == JsFloorDiv(totalSeconds, 60)
        seconds == JsRem(totalSeconds, 60)
        millis == JsFloorDiv(JsRem(ms, 1000), 10)
        timeStr == PadStart2(toString(minutes)) \o <<":">>
                      \o PadStart2(toString(seconds))
    IN  IF showMillis
        THEN timeStr \o <<".">> \o PadStart2(toString(millis))
        ELSE timeStr

\* The value formatCountdown passes to formatTime
CountdownRemaining(s) == MaxZero(s.countdown.totalTime * 1000 - s.currentTime)

formatCountdown(s) == formatTime(CountdownRemaining(s), FALSE)

\* The value formatTabata passes to formatTime
TabataPhaseTime(s) ==
    LET workTime == s.tabata.workTime
        restTime == s.tabata.restTime
        cycleTime == (workTime + restTime) * 1000
        currentCycleTime == JsRem(s.currentTime, cycleTime)
        phaseTime == IF s.isWorkPhase
                     THEN workTime * 1000 - currentCycleTime
                     ELSE cycleTime - currentCycleTime
    IN  MaxZero(phaseTime)

formatTabata(s) ==
    [ time  |-> formatTime(TabataPhaseTime(s), FALSE),
      round |-> toString(s.currentRound) \o <<"/">> \o toString(s.tabata.rounds),
      phase |-> IF s.isWorkPhase THEN "WORK" ELSE "REST" ]

\* The value formatEmom passes to formatTime
EmomRemaining(s) ==
    LET timeInCurrentMinute == JsRem(s.currentTime, 60000)
        remaining == 60000 - timeInCurrentMinute
    IN  MaxZero(remaining)

formatEmom(s) ==
    [ time   |-> formatTime(EmomRemaining(s), FALSE),
      minute |-> toString(s.currentMinute) \o <<"/">>
                    \o toString(s.emom.totalMinutes) ]

\* The value formatAmrap passes to formatTime
AmrapRemaining(s) == MaxZero(s.amrap.totalTime * 1000 - s.currentTime)

formatAmrap(s) == formatTime(AmrapRemaining(s), FALSE)

----------------------------------------------------------------------------
(* C35 *)

\* The remaining time the formatter of the state's mode derives, in ms.
RemainingShown(s) ==
    CASE s.mode = "countdown" -> CountdownRemaining(s)
      [] s.mode = "tabata"    -> TabataPhaseTime(s)
      [] s.mode = "emom"      -> EmomRemaining(s)
      [] s.mode = "amrap"     -> AmrapRemaining(s)

\* The time string the formatter of the state's mode returns.
TimeShown(s) ==
    CASE s.mode = "countdown" -> formatCountdown(s)
      [] s.mode = "tabata"    -> formatTabata(s).time
      [] s.mode = "emom"      -> formatEmom(s).time
      [] s.mode = "amrap"     -> formatAmrap(s)

\* The duration in ms of the tabata phase formatTabata names.
PhaseShownDuration(s) ==
    IF s.isWorkPhase THEN s.tabata.workTime * 1000 ELSE s.tabata.restTime * 1000

\* The state a TICK has just completed a run of a bounded mode in.
JustCompleted ==
    /\ action.type = "TICK"
    /\ AtBoundary(state)
    /\ CountsSettled(state)
    /\ ~state.isInCountdownIntro

\* C35: when a TICK at the boundary has completed a bounded run, the
\* formatter of the mode derives 0 ms remaining (countdown and amrap: of the
\* run; tabata: of the phase; emom: of the minute) and shows 00:00; and in
\* every state the tabata phase time is at most the duration of the phase
\* that formatTabata names.
C35_CompletedShowsZero ==
    /\ JustCompleted
          => /\ RemainingShown(state) = 0
             /\ TimeShown(state) = <<"0", "0", ":", "0", "0">>
    /\ state.mode = "tabata"
          => TabataPhaseTime(state) <= PhaseShownDuration(state)

\* What the formatters derive for a run a TICK has just completed:
\* countdown and amrap 0 ms, tabata a whole work + rest cycle under the
\* phase REST, emom a whole minute.
C35_CompletedDisplay ==
    JustCompleted
    => CASE state.mode = "tabata" ->
              /\ TabataPhaseTime(state)
                    = (state.tabata.workTime + state.tabata.restTime) * 1000
              /\ formatTabata(state).phase = "REST"
         [] state.mode = "emom" ->
              /\ EmomRemaining(state) = 60000
              /\ formatEmom(state).time = <<"0", "1", ":", "0", "0">>
         [] OTHER ->
              /\ RemainingShown(state) = 0
              /\ TimeShown(state) = <<"0", "0", ":", "0", "0">>

----------------------------------------------------------------------------
(* C36 *)

\* C36: a TICK never changes mode, a settings object or countdownIntro; in
\* a mode other than tabata it leaves currentRound and isWorkPhase
\* unchanged, in a mode other than emom it leaves currentMinute unchanged,
\* and in the intro it leaves isRunning, currentRound, currentMinute and
\* isWorkPhase unchanged.
C36_TickFrame ==
    \A d \in Deltas :
        LET t == timerReducer(state, [type |-> "TICK", delta |-> d])
        IN  /\ t.mode = state.mode
            /\ SettingsOf(t) = SettingsOf(state)
            /\ state.mode # "tabata"
                  => /\ t.currentRound = state.currentRound
                     /\ t.isWorkPhase = state.isWorkPhase
            /\ state.mode # "emom"
                  => t.currentMinute = state.currentMinute
            /\ state.isInCountdownIntro
                  => /\ t.isRunning = state.isRunning
                     /\ t.currentRound = state.currentRound
                     /\ t.currentMinute = state.currentMinute
                     /\ t.isWorkPhase = state.isWorkPhase

\* An emom has been ticked into its second minute: 60 s have passed, two
\* tabata cycles of the stored settings, and currentRound is still 1 in the
\* work phase.
C36_Witness ==
    /\ action.type = "TICK"
    /\ state.mode = "emom"
    /\ state.isRunning
    /\ state.currentTime = 60000
    /\ state.currentMinute = 2
    /\ state.tabata = [workTime |-> 20, restTime |-> 10, rounds |-> 8]
    /\ state.currentRound = 1
    /\ state.isWorkPhase

====
